---------------------------- MODULE Spec2Model ----------------------------
(***************************************************************************)
(* HttpAcceptParser::parse (src/HttpAcceptParser.cpp): content negotiation *)
(* over the value of an HTTP 'Accept' header and a list of available       *)
(* content types.                                                          *)
(*                                                                         *)
(* A std::string is a sequence of one-character strings.  A float qvalue   *)
(* is an integer number of 1/Scale units, with one value set apart for NaN *)
(* and two for the infinities; the comparisons on qvalues are the IEEE     *)
(* ones (every ordered comparison with NaN is false, NaN != x is true).    *)
(***************************************************************************)
EXTENDS Integers, Sequences, FiniteSets, TLC

VARIABLES acceptValue, availableContentTypes, acceptedContentTypes,
          selectedContentTypes, result, pc

vars == <<acceptValue, availableContentTypes, acceptedContentTypes,
          selectedContentTypes, result, pc>>

(***************************************************************************)
(* Bounds of the model.                                                    *)
(***************************************************************************)
MaxTokens == 2
MaxAvail == 2
MaxCmpTokens == 3
FracDigits == 4

(***************************************************************************)
(* float                                                                   *)
(***************************************************************************)
RECURSIVE Pow10(_)
Pow10(n) == IF n = 0 THEN 1 ELSE 10 * Pow10(n - 1)

Scale == Pow10(FracDigits)

QDefault == Scale
QMin == Scale \div 1000
QRejected == 0 - Scale
PosInf == 1000 * Scale
NegInf == 0 - PosInf
NaN == 1001 * Scale

FLt(x, y) == x # NaN /\ y # NaN /\ x < y
FGt(x, y) == x # NaN /\ y # NaN /\ x > y
FEq(x, y) == x # NaN /\ y # NaN /\ x = y
FNe(x, y) == ~FEq(x, y)

(***************************************************************************)
(* std::string helpers                                                     *)
(***************************************************************************)
EmptyString == << >>

\* the character '\v', which a TLA+ string cannot hold, as an element of its own
VerticalTab == "\\v"

charsToTrim == {" ", "\t", "\n", "\r", "\f", VerticalTab}

UpperCase == <<"A", "B", "C", "D", "E", "F", "G", "H", "I", "J", "K", "L", "M",
               "N", "O", "P", "Q", "R", "S", "T", "U", "V", "W", "X", "Y", "Z">>
LowerCase == <<"a", "b", "c", "d", "e", "f", "g", "h", "i", "j", "k", "l", "m",
               "n", "o", "p", "q", "r", "s", "t", "u", "v", "w", "x", "y", "z">>

tolower(c) ==
    IF \E i \in 1..Len(UpperCase) : UpperCase[i] = c
    THEN LowerCase[CHOOSE i \in 1..Len(UpperCase) : UpperCase[i] = c]
    ELSE c

stringToLower(s) == [i \in 1..Len(s) |-> tolower(s[i])]

\* s.erase(s.find_last_not_of(t) + 1)
rtrim(s, t) ==
    LET keep == {i \in 1..Len(s) : s[i] \notin t}
    IN  IF keep = {} THEN EmptyString
        ELSE SubSeq(s, 1, CHOOSE i \in keep : \A j \in keep : j <= i)

\* s.erase(0, s.find_first_not_of(t)); npos erases the whole string
ltrim(s, t) ==
    LET keep == {i \in 1..Len(s) : s[i] \notin t}
    IN  IF keep = {} THEN EmptyString
        ELSE SubSeq(s, CHOOSE i \in keep : \A j \in keep : i <= j, Len(s))

trim(s) == ltrim(rtrim(s, charsToTrim), charsToTrim)

\* std::string::find(c): the 1-based index of the first c, 0 for npos
find(s, c) ==
    LET hits == {i \in 1..Len(s) : s[i] = c}
    IN  IF hits = {} THEN 0 ELSE CHOOSE i \in hits : \A j \in hits : i <= j

\* the strings that successive std::getline(stream, x, delim) calls extract:
\* the pieces between delimiters; nothing is extracted after a final
\* delimiter, nor from an empty stream
RECURSIVE getlines(_, _)
getlines(s, delim) ==
    IF s = EmptyString THEN << >>
    ELSE LET i == find(s, delim)
         IN  IF i = 0 THEN <<s>>
             ELSE <<SubSeq(s, 1, i - 1)>> \o getlines(SubSeq(s, i + 1, Len(s)), delim)

(***************************************************************************)
(* stringToFloat: std::stof, that is strtof on the longest prefix that is  *)
(* a number: an optional sign, then "nan", "inf" (any case) or decimal     *)
(* digits with an optional fraction.  Without a conversion std::stof      *)
(* throws, and the function returns false.  Fraction digits past           *)
(* FracDigits are dropped; exponents, hexadecimal floats and values out of *)
(* the range of a float are outside the strings modelled.                  *)
(***************************************************************************)
Digits == <<"0", "1", "2", "3", "4", "5", "6", "7", "8", "9">>
IsDigit(c) == \E d \in 1..10 : Digits[d] = c
DigitVal(c) == (CHOOSE d \in 1..10 : Digits[d] = c) - 1

\* the number of leading digits of s
RECURSIVE DigitRun(_)
DigitRun(s) ==
    IF s # EmptyString /\ IsDigit(Head(s)) THEN 1 + DigitRun(Tail(s)) ELSE 0

\* the value of the digit string s as an integer
RECURSIVE DigitsValue(_)
DigitsValue(s) ==
    IF s = EmptyString THEN 0
    ELSE 10 * DigitsValue(SubSeq(s, 1, Len(s) - 1)) + DigitVal(s[Len(s)])

\* the value, in 1/Scale units, of the fraction digits s
FractionValue(s) ==
    LET kept == SubSeq(s, 1, IF Len(s) < FracDigits THEN Len(s) ELSE FracDigits)
    IN  DigitsValue(kept) * Pow10(FracDigits - Len(kept))

HasPrefixNoCase(s, word) ==
    /\ Len(s) >= Len(word)
    /\ stringToLower(SubSeq(s, 1, Len(word))) = word

stringToFloat(s) ==
    LET signed == s # EmptyString /\ Head(s) \in {"+", "-"}
        sign == IF s # EmptyString /\ Head(s) = "-" THEN 0 - 1 ELSE 1
        body == IF signed THEN Tail(s) ELSE s
        nInt == DigitRun(body)
        rest == SubSeq(body, nInt + 1, Len(body))
        nFrac == IF rest # EmptyString /\ Head(rest) = "." THEN DigitRun(Tail(rest)) ELSE 0
    IN  IF HasPrefixNoCase(body, <<"n", "a", "n">>) THEN [ok |-> TRUE, f |-> NaN]
        ELSE IF HasPrefixNoCase(body, <<"i", "n", "f">>)
             THEN [ok |-> TRUE, f |-> sign * PosInf]
        ELSE IF nInt + nFrac = 0 THEN [ok |-> FALSE, f |-> 0]
        ELSE [ok |-> TRUE,
              f |-> sign * (DigitsValue(SubSeq(body, 1, nInt)) * Scale
                            + FractionValue(SubSeq(rest, 2, nFrac + 1)))]

(***************************************************************************)
(* ParsedContentType                                                       *)
(***************************************************************************)
ParsedContentType(range, type, subtype, qvalue, order) ==
    [range |-> range, type |-> type, subtype |-> subtype,
     qvalue |-> qvalue, order |-> order]

Wildcard == <<"*">>


(***************************************************************************)
(* parse: the tokenizer                                                    *)
(***************************************************************************)
\* RFC 7231 Section 5.3.1 normalisation of a parsed quality value
normalizeQuality(q) ==
    IF (FLt(q, QMin) /\ FNe(q, 0)) \/ FGt(q, QDefault) THEN QDefault
    ELSE IF FEq(q, 0) THEN QRejected
    ELSE q

Rejected(contentType) == [accepted |-> FALSE, contentType |-> contentType]
Accepted(contentType) == [accepted |-> TRUE, contentType |-> contentType]

\* the first parameter of a token: the media-range
parseMediaRange(contentType, param) ==
    LET range == stringToLower(param)
        indexSlash == find(range, "/")
        type == SubSeq(range, 1, indexSlash - 1)
        subtype == SubSeq(range, indexSlash + 1, Len(range))
        ranged == [contentType EXCEPT !.range = range]
        split == [ranged EXCEPT !.type = type, !.subtype = subtype]
    IN  IF indexSlash = 0 THEN Rejected(ranged)
        ELSE IF type = Wildcard /\ subtype # Wildcard THEN Rejected(split)
        ELSE Accepted(split)

\* (variant: the token is kept, with the qvalue it had)
unparseableQualityKept(contentType) == Accepted(contentType)

\* the value of a q or Q parameter that stringToFloat could not convert
unparseableQuality(contentType) == Rejected(contentType)

\* a later parameter of a token: key "=" value
parseParameter(contentType, param) ==
    LET indexEqual == find(param, "=")
        key == trim(SubSeq(param, 1, indexEqual - 1))
        value == trim(SubSeq(param, indexEqual + 1, Len(param)))
        converted == stringToFloat(value)
    IN  IF indexEqual = 0 THEN Rejected(contentType)
        ELSE IF key = <<"q">> \/ key = <<"Q">>
             THEN IF ~converted.ok THEN unparseableQuality(contentType)
                  ELSE Accepted([contentType EXCEPT !.qvalue = normalizeQuality(converted.f)])
        ELSE Accepted(contentType)

\* the loop over the ';'-separated parameters of one token; it stops at the
\* first parameter that rejects the token
RECURSIVE parseParameters(_, _, _)
parseParameters(contentType, params, isFirstParameter) ==
    IF params = << >> THEN Accepted(contentType)
    ELSE LET param == trim(Head(params))
             step == IF isFirstParameter THEN parseMediaRange(contentType, param)
                     ELSE parseParameter(contentType, param)
         IN  IF step.accepted
             THEN parseParameters(step.contentType, Tail(params), FALSE)
             ELSE step

\* one iteration of the loop over the ','-separated tokens
parseToken(token, order) ==
    LET trimmed == trim(token)
    IN  parseParameters(ParsedContentType(trimmed, EmptyString, EmptyString, QDefault, order),
                        getlines(trimmed, ";"), TRUE)

acceptTokens(acceptValue_) == getlines(acceptValue_, ",")

\* acceptedContentTypes before the sort
RECURSIVE parseTokensFrom(_, _)
parseTokensFrom(tokens, order) ==
    IF tokens = << >> THEN << >>
    ELSE LET parsed == parseToken(Head(tokens), order)
         IN  (IF parsed.accepted THEN <<parsed.contentType>> ELSE << >>)
             \o parseTokensFrom(Tail(tokens), order + 1)

parseAccepted(acceptValue_) == parseTokensFrom(acceptTokens(acceptValue_), 0)

(***************************************************************************)
(* compareContentTypes and std::sort                                       *)
(***************************************************************************)
compareContentTypes(a, b) ==
    IF FNe(a.qvalue, b.qvalue) THEN FGt(a.qvalue, b.qvalue)
    ELSE IF a.type # b.type
         THEN IF a.type = Wildcard THEN TRUE
              ELSE IF b.type = Wildcard THEN FALSE
              ELSE a.order < b.order
    ELSE IF a.subtype # b.subtype
         THEN IF a.subtype = Wildcard THEN TRUE
              ELSE IF b.subtype = Wildcard THEN FALSE
              ELSE a.order < b.order
    ELSE a.order < b.order

Elements(s) == {s[i] : i \in 1..Len(s)}

Equivalent(a, b) == ~compareContentTypes(a, b) /\ ~compareContentTypes(b, a)

\* what std::sort requires of its comparator, over the elements it is given
IsStrictWeakOrdering(S) ==
    /\ \A a \in S : ~compareContentTypes(a, a)
    /\ \A a, b, c \in S :
          compareContentTypes(a, b) /\ compareContentTypes(b, c) => compareContentTypes(a, c)
    /\ \A a, b, c \in S : Equivalent(a, b) /\ Equivalent(b, c) => Equivalent(a, c)

Orderings(s) ==
    LET n == Len(s)
        bijections == {f \in [1..n -> 1..n] : \A i, j \in 1..n : f[i] = f[j] => i = j}
    IN  {[i \in 1..n |-> s[f[i]]] : f \in bijections}

IsSorted(s) == \A i, j \in 1..Len(s) : i < j => ~compareContentTypes(s[j], s[i])

\* std::sort(first, last, compareContentTypes): some sorted permutation
\* (equivalent elements in any order); with a comparator that is no strict
\* weak ordering of the elements the behaviour is undefined, and any
\* permutation may come out
sort(s) ==
    IF IsStrictWeakOrdering(Elements(s)) THEN {p \in Orderings(s) : IsSorted(p)}
    ELSE Orderings(s)

(***************************************************************************)
(* getPreferableContentType                                                *)
(***************************************************************************)
\* (variant: a candidate starts from the default qvalue of an accepted range)
QUnmatchedAsDefault == QDefault

\* the initial qvalue of a candidate
QUnmatched == 0

\* (variant: '*/*' applies whether or not a match was found)
matchesAnyAlways(acceptedContentType, matchFound) ==
    acceptedContentType.type = Wildcard

\* the branch of the scan that matches '*/*'
matchesAny(acceptedContentType, matchFound) ==
    acceptedContentType.type = Wildcard /\ ~matchFound

\* the scan of one candidate over the accepted content types, in their order
RECURSIVE scanAccepted(_, _, _)
scanAccepted(selectedContentType, accepted, matchFound) ==
    IF accepted = << >> THEN selectedContentType
    ELSE LET acceptedContentType == Head(accepted)
         IN  IF /\ acceptedContentType.type = selectedContentType.type
                /\ \/ acceptedContentType.subtype = selectedContentType.subtype
                   \/ (acceptedContentType.subtype = Wildcard /\ ~matchFound)
             THEN scanAccepted([selectedContentType EXCEPT !.qvalue = acceptedContentType.qvalue],
                               Tail(accepted), TRUE)
             ELSE IF matchesAny(acceptedContentType, matchFound)
             THEN scanAccepted([selectedContentType EXCEPT !.qvalue = acceptedContentType.qvalue],
                               Tail(accepted), matchFound)
             ELSE scanAccepted(selectedContentType, Tail(accepted), matchFound)

\* (variant: every available content type is a candidate)
isCandidateAlways(contentTypeStr) == TRUE

\* an available content type without '/' is no candidate
isCandidate(contentTypeStr) == find(contentTypeStr, "/") # 0

\* selectedContentTypes before the sort
RECURSIVE selectFrom(_, _, _)
selectFrom(accepted, available, order) ==
    IF available = << >> THEN << >>
    ELSE LET contentTypeStr == stringToLower(trim(Head(available)))
             indexSlash == find(contentTypeStr, "/")
             selectedContentType ==
                 ParsedContentType(contentTypeStr,
                                   SubSeq(contentTypeStr, 1, indexSlash - 1),
                                   SubSeq(contentTypeStr, indexSlash + 1, Len(contentTypeStr)),
                                   QUnmatched, order)
         IN  IF ~isCandidate(contentTypeStr)
             THEN selectFrom(accepted, Tail(available), order)
             ELSE <<scanAccepted(selectedContentType, accepted, FALSE)>>
                  \o selectFrom(accepted, Tail(available), order + 1)

firstAvailable(available) ==
    IF available # << >> THEN Head(available) ELSE EmptyString

\* (variant: the last of the sorted selectedContentTypes is returned)
preferableBack(selected, available) ==
    IF selected # << >> THEN selected[Len(selected)].range ELSE firstAvailable(available)

\* (variant: no fallback to the first available content type)
preferableNoFallback(selected, available) ==
    IF selected # << >> THEN Head(selected).range ELSE EmptyString

\* the value returned, given the sorted selectedContentTypes
preferable(selected, available) ==
    IF selected # << >> THEN Head(selected).range ELSE firstAvailable(available)

(***************************************************************************)
(* The values parse can return, as sets                                    *)
(***************************************************************************)
getPreferableContentTypeResults(accepted, available) ==
    {preferable(selected, available) : selected \in sort(selectFrom(accepted, available, 0))}

parseResults(acceptValue_, available) ==
    IF acceptValue_ = EmptyString THEN {firstAvailable(available)}
    ELSE UNION {getPreferableContentTypeResults(accepted, available) :
                    accepted \in sort(parseAccepted(acceptValue_))}

(***************************************************************************)
(* Inputs.  An Accept value is the ','-join of at most n tokens of a token *)
(* set; an available list holds at most n entries of an entry set.         *)
(***************************************************************************)
SeqsUpTo(S, n) == UNION {[1..k -> S] : k \in 0..n}

RECURSIVE join(_, _)
join(pieces, delim) ==
    IF pieces = << >> THEN EmptyString
    ELSE IF Len(pieces) = 1 THEN Head(pieces)
    ELSE Head(pieces) \o <<delim>> \o join(Tail(pieces), delim)

Headers(T, n) == {join(tokens, ",") : tokens \in SeqsUpTo(T, n)}

\* "t/h"   "a/j"   "t/*"   "*/*"
TH == <<"t", "/", "h">>
AJ == <<"a", "/", "j">>
TStar == <<"t", "/", "*">>
StarStar == <<"*", "/", "*">>

\* ";q=" and some quality values
QIs == <<";", "q", "=">>
Q05 == QIs \o <<"0", ".", "5">>
Q09 == QIs \o <<"0", ".", "9">>
Q01 == QIs \o <<"0", ".", "1">>
Q0 == QIs \o <<"0">>
QNan == QIs \o <<"n", "a", "n">>
QBad == QIs \o <<"x">>

\* the tokens and the available entries of the negotiation:
\*   "t/h"  "a/j;q=0.5"  "t/*;q=0.9"  "*/*;q=0.1"  "t/h;q=0"  "a/j;q=nan"
\*   "t/h"  "a/j"  " T/H"  "t/*"  "junk"
NegotiationTokens ==
    {TH, AJ \o Q05, TStar \o Q09, StarStar \o Q01, TH \o Q0, AJ \o QNan}

NegotiationAvailable ==
    {TH, AJ, <<" ", "T", "/", "H">>, TStar, <<"j", "u", "n", "k">>}

\* the tokens and the available entries of the fallbacks:
\*   "t/h;q=x"  "t"  "a/j;q=0.5"  "t/h"
\*   "t/h"  " A/J"  "junk"  ""  "t/*"
FallbackTokens == {TH \o QBad, <<"t">>, AJ \o Q05, TH}

FallbackAvailable ==
    {TH, <<" ", "A", "/", "J">>, <<"j", "u", "n", "k">>, EmptyString, TStar}

\* the tokens of the tokenizer:
\*   " T/H ;Q=0.3"  "a/j;q=0"  "a/j;q=2"  "a/j;q=0.0005"  "a/j;q=0.001"
\*   "a/j;q=-1"  "a/j;q=nan"  "a/j;q=inf"  "a/j;q=x"  "a/j; q = .5x"
\*   "t"  "*/h"  "t/h;v"  "t/h;v=1;q=0.5"  ""  " "  "/"  "t/"  "t/h;q=0.5;q=0.7"
TokenizerTokens ==
    {TH,
     <<" ", "T", "/", "H", " ", ";", "Q", "=", "0", ".", "3">>,
     AJ \o Q0,
     AJ \o QIs \o <<"2">>,
     AJ \o QIs \o <<"0", ".", "0", "0", "0", "5">>,
     AJ \o QIs \o <<"0", ".", "0", "0", "1">>,
     AJ \o QIs \o <<"-", "1">>,
     AJ \o QNan,
     AJ \o QIs \o <<"i", "n", "f">>,
     AJ \o QBad,
     AJ \o <<";", " ", "q", " ", "=", " ", ".", "5", "x">>,
     <<"t">>,
     <<"*", "/", "h">>,
     TH \o <<";", "v">>,
     TH \o <<";", "v", "=", "1">> \o Q05,
     EmptyString,
     <<" ">>,
     <<"/">>,
     <<"t", "/">>,
     TH \o Q05 \o QIs \o <<"0", ".", "7">>}

TokenizerAvailable == {TH, <<" ", "A", "/", "J">>, <<"j", "u", "n", "k">>}

\* the tokens and the available entries of the comparator
ComparatorTokens == {TH, AJ, TStar, StarStar}
ComparatorAvailable == {TH, AJ, TStar}

(***************************************************************************)
(* The state machine: one call of parse.                                   *)
(***************************************************************************)
InitOver(headers, availables) ==
    /\ acceptValue \in headers
    /\ availableContentTypes \in availables
    /\ acceptedContentTypes = << >>
    /\ selectedContentTypes = << >>
    /\ result = EmptyString
    /\ pc = "parse"

Init ==
    InitOver(Headers(NegotiationTokens, MaxTokens),
             SeqsUpTo(NegotiationAvailable, MaxAvail))

InitFallback ==
    InitOver(Headers(FallbackTokens, MaxTokens),
             SeqsUpTo(FallbackAvailable, MaxAvail))

InitTokenizer ==
    InitOver(Headers(TokenizerTokens, MaxTokens),
             SeqsUpTo(TokenizerAvailable, MaxAvail))

InitComparator ==
    InitOver(Headers(ComparatorTokens, MaxCmpTokens),
             SeqsUpTo(ComparatorAvailable, MaxCmpTokens))

\* parse, lines 11-18: the 'Accept' header is empty
ReturnFirstAvailable ==
    /\ pc = "parse"
    /\ acceptValue = EmptyString
    /\ result' = firstAvailable(availableContentTypes)
    /\ pc' = "done"
    /\ UNCHANGED <<acceptValue, availableContentTypes, acceptedContentTypes,
                   selectedContentTypes>>

\* parse, lines 20-107: tokenize the header and sort what was accepted
ParseAccept ==
    /\ pc = "parse"
    /\ acceptValue # EmptyString
    /\ acceptedContentTypes' \in sort(parseAccepted(acceptValue))
    /\ pc' = "getPreferableContentType"
    /\ UNCHANGED <<acceptValue, availableContentTypes, selectedContentTypes, result>>

\* parse, line 110: getPreferableContentType and the return of its value
GetPreferableContentType ==
    /\ pc = "getPreferableContentType"
    /\ selectedContentTypes'
         \in sort(selectFrom(acceptedContentTypes, availableContentTypes, 0))
    /\ result' = preferable(selectedContentTypes', availableContentTypes)
    /\ pc' = "done"
    /\ UNCHANGED <<acceptValue, availableContentTypes, acceptedContentTypes>>

Next == ReturnFirstAvailable \/ ParseAccept \/ GetPreferableContentType

Spec == Init /\ [][Next]_vars
SpecFallback == InitFallback /\ [][Next]_vars
SpecTokenizer == InitTokenizer /\ [][Next]_vars
SpecComparator == InitComparator /\ [][Next]_vars

Done == pc = "done"

(***************************************************************************)
(* Vocabulary of the properties                                            *)
(***************************************************************************)
\* x >= y on floats
FGe(x, y) == x # NaN /\ y # NaN /\ x >= y

HasSlash(s) == \E i \in 1..Len(s) : s[i] = "/"
HasStar(s) == \E i \in 1..Len(s) : s[i] = "*"
Normalized(s) == stringToLower(trim(s))
Available == 1..Len(availableContentTypes)
NoAvailableHasSlash == \A k \in Available : ~HasSlash(availableContentTypes[k])
FrontOrEmpty ==
    IF availableContentTypes = << >> THEN EmptyString ELSE availableContentTypes[1]

\* the candidate built from the k-th available entry, when every entry is one
CandidateOf(k) == CHOOSE c \in Elements(selectedContentTypes) : c.order = k - 1
EffectiveQuality(k) == CandidateOf(k).qvalue

\* C1: with a non-empty header and available entries that are all concrete
\* 'type/subtype' strings, the value returned is the normalized form of the
\* entry of highest effective quality, the earliest of them on a tie.
C1_HighestQualityEarliestWins ==
    ( /\ Done
      /\ acceptValue # EmptyString
      /\ availableContentTypes # << >>
      /\ \A k \in Available : /\ HasSlash(availableContentTypes[k])
                              /\ ~HasStar(availableContentTypes[k]) )
    => \E i \in Available :
          /\ result = Normalized(availableContentTypes[i])
          /\ \A j \in Available \ {i} : FGe(EffectiveQuality(i), EffectiveQuality(j))
          /\ \A j \in Available : j < i => FGt(EffectiveQuality(i), EffectiveQuality(j))

\* C1, as far as it holds: the same statement for the calls in which every
\* effective quality is a number.
C1_HoldsWhenQualitiesAreNumbers ==
    (Done /\ \E c \in Elements(selectedContentTypes) : c.qvalue = NaN)
    \/ C1_HighestQualityEarliestWins

\* C2 as claimed: a header that yields no accepted range makes parse return
\* available.front() unchanged, or the empty string.
C2_NoAcceptedRangeReturnsFront ==
    (Done /\ acceptedContentTypes = << >>) => result = FrontOrEmpty

\* C2 as amended: an empty header returns available.front() unchanged (or
\* the empty string); a non-empty header of which every token is discarded
\* does so only when no available entry contains '/', and otherwise returns
\* the normalized form of an available entry that contains '/', the first
\* such entry when no available entry contains '*'.
C2_EmptyHeaderReturnsFront ==
    (Done /\ acceptedContentTypes = << >>) =>
        IF acceptValue = EmptyString \/ NoAvailableHasSlash
        THEN result = FrontOrEmpty
        ELSE \E i \in Available :
                /\ HasSlash(availableContentTypes[i])
                /\ result = Normalized(availableContentTypes[i])
                /\ (\A k \in Available : ~HasStar(availableContentTypes[k]))
                      => \A j \in Available : j < i => ~HasSlash(availableContentTypes[j])

C2_Witness ==
    /\ Done
    /\ acceptValue # EmptyString
    /\ acceptedContentTypes = << >>
    /\ availableContentTypes # << >>
    /\ result # availableContentTypes[1]

\* C3 as claimed: the value returned is the normalized form of an available
\* entry or the first entry verbatim, and is empty only when the available
\* list is empty.
C3_ResultFromAvailable ==
    Done =>
        IF availableContentTypes = << >> THEN result = EmptyString
        ELSE /\ \/ result = availableContentTypes[1]
                \/ \E i \in Available : result = Normalized(availableContentTypes[i])
             /\ result # EmptyString

\* C3 as amended: the value returned is the normalized form of an available
\* entry or the first entry verbatim, and is empty only when the available
\* list is empty or its first entry is the empty string.
C3_ResultFromAvailableOrEmptyFront ==
    Done =>
        IF availableContentTypes = << >> THEN result = EmptyString
        ELSE /\ \/ result = availableContentTypes[1]
                \/ \E i \in Available : result = Normalized(availableContentTypes[i])
             /\ result = EmptyString => availableContentTypes[1] = EmptyString

C3_Witness ==
    /\ Done
    /\ Len(availableContentTypes) > 1
    /\ result = EmptyString

\* C4 as claimed: a value without '/' is returned only when no available
\* entry contains a '/'.
C4_NoSlashOnlyWithoutCandidates ==
    (Done /\ availableContentTypes # << >> /\ ~HasSlash(result)) => NoAvailableHasSlash

\* C4 as amended: a value without '/' is returned only as the fallback
\* available.front(), when the header is empty or no available entry
\* contains a '/'.
C4_NoSlashOnlyAsFallback ==
    (Done /\ availableContentTypes # << >> /\ ~HasSlash(result)) =>
        /\ result = availableContentTypes[1]
        /\ acceptValue = EmptyString \/ NoAvailableHasSlash

C4_Witness ==
    /\ Done
    /\ acceptValue # EmptyString
    /\ acceptedContentTypes # << >>
    /\ availableContentTypes # << >>
    /\ ~HasSlash(availableContentTypes[1])
    /\ result = availableContentTypes[1]

\* a token with a q or Q parameter that stringToFloat cannot convert
HasUnparseableQuality(token) ==
    LET params == getlines(trim(token), ";")
    IN  \E k \in 2..Len(params) :
           LET param == trim(params[k])
               indexEqual == find(param, "=")
           IN  /\ indexEqual # 0
               /\ trim(SubSeq(param, 1, indexEqual - 1)) \in {<<"q">>, <<"Q">>}
               /\ ~stringToFloat(trim(SubSeq(param, indexEqual + 1, Len(param)))).ok

\* the header with its i-th token omitted: the other tokens, in their order
RECURSIVE terminated(_, _)
terminated(pieces, delim) ==
    IF pieces = << >> THEN EmptyString
    ELSE Head(pieces) \o <<delim>> \o terminated(Tail(pieces), delim)

WithoutToken(header, i) ==
    LET tokens == acceptTokens(header)
    IN  terminated(SubSeq(tokens, 1, i - 1) \o SubSeq(tokens, i + 1, Len(tokens)), ",")

UnparseableTokens ==
    {i \in 1..Len(acceptTokens(acceptValue)) :
        HasUnparseableQuality(acceptTokens(acceptValue)[i])}

SameAsWithout(i) ==
    /\ result \in parseResults(WithoutToken(acceptValue, i), availableContentTypes)
    /\ parseResults(acceptValue, availableContentTypes)
         = parseResults(WithoutToken(acceptValue, i), availableContentTypes)

\* C5 as claimed: parse returns for a header what it returns for the header
\* with a range of unparseable q omitted, also when that range was the only
\* one.
C5_UnparseableQualityIsOmission ==
    Done => \A i \in UnparseableTokens : SameAsWithout(i)

\* C5 as amended: parse returns for a header what it returns for the header
\* with a range of unparseable q omitted, provided another token remains.
C5_UnparseableQualityIsOmissionWhenTokensRemain ==
    Done => \A i \in UnparseableTokens :
               WithoutToken(acceptValue, i) # EmptyString => SameAsWithout(i)

C5_Witness ==
    /\ Done
    /\ acceptedContentTypes # << >>
    /\ \E i \in UnparseableTokens : WithoutToken(acceptValue, i) # EmptyString
    /\ result # FrontOrEmpty

\* the accepted ranges, by position in the scan, that match a candidate
ExactMatches(c) ==
    {i \in 1..Len(acceptedContentTypes) :
        /\ acceptedContentTypes[i].type = c.type
        /\ acceptedContentTypes[i].subtype = c.subtype}
SubtypeWildcardMatches(c) ==
    {i \in 1..Len(acceptedContentTypes) :
        /\ acceptedContentTypes[i].type = c.type
        /\ acceptedContentTypes[i].subtype = Wildcard}
FullWildcardMatches ==
    {i \in 1..Len(acceptedContentTypes) : acceptedContentTypes[i].type = Wildcard}

Last(S) == CHOOSE i \in S : \A j \in S : j <= i
First(S) == CHOOSE i \in S : \A j \in S : i <= j

QualityBySpecificity(c) ==
    IF ExactMatches(c) # {} THEN acceptedContentTypes[Last(ExactMatches(c))].qvalue
    ELSE IF SubtypeWildcardMatches(c) # {}
         THEN acceptedContentTypes[First(SubtypeWildcardMatches(c))].qvalue
    ELSE IF FullWildcardMatches # {}
         THEN acceptedContentTypes[Last(FullWildcardMatches)].qvalue
    ELSE 0

\* C6: the effective quality of every candidate is that of the last-scanned
\* exact range, else of the first-scanned 'type/*' range, else of the
\* last-scanned '*/*' range, else 0.
C6_QualityFollowsSpecificity ==
    (Done /\ acceptValue # EmptyString) =>
        \A c \in Elements(selectedContentTypes) : c.qvalue = QualityBySpecificity(c)

C6_Witness ==
    /\ Done
    /\ \E c \in Elements(selectedContentTypes) :
          \E i \in ExactMatches(c) :
             \E j \in FullWildcardMatches \cup SubtypeWildcardMatches(c) :
                /\ i < j
                /\ acceptedContentTypes[i].qvalue # acceptedContentTypes[j].qvalue
                /\ c.qvalue = acceptedContentTypes[i].qvalue

StrictTotalOrderOn(S) ==
    /\ \A a \in S : ~compareContentTypes(a, a)
    /\ \A a, b \in S : a # b => (compareContentTypes(a, b) <=> ~compareContentTypes(b, a))
    /\ \A a, b, c \in S :
          compareContentTypes(a, b) /\ compareContentTypes(b, c) => compareContentTypes(a, c)

\* C7: compareContentTypes is a strict total order of the entries that are
\* sorted with it (irreflexive, total, transitive).
C7_CompareIsStrictTotalOrder ==
    /\ StrictTotalOrderOn(Elements(acceptedContentTypes))
    /\ StrictTotalOrderOn(Elements(selectedContentTypes))

Unmatched(c) ==
    ExactMatches(c) \cup SubtypeWildcardMatches(c) \cup FullWildcardMatches = {}

AllCandidatesIncluded ==
    Len(selectedContentTypes)
        = Cardinality({k \in Available : HasSlash(availableContentTypes[k])})

\* C8 as claimed: an unmatched candidate keeps quality 0, stays a candidate,
\* and no candidate has a quality strictly below its own.
C8_UnmatchedScoresLowest ==
    (Done /\ acceptValue # EmptyString) =>
        /\ AllCandidatesIncluded
        /\ \A c \in Elements(selectedContentTypes) :
              Unmatched(c) =>
                 /\ c.qvalue = 0
                 /\ \A d \in Elements(selectedContentTypes) : ~FLt(d.qvalue, c.qvalue)

\* C8 as amended: an unmatched candidate keeps quality 0, stays a candidate,
\* and the only candidates of a quality strictly below its own are those
\* matched by a range given q=0, which carry the sentinel -1.0.
C8_UnmatchedScoresLowestButRejected ==
    (Done /\ acceptValue # EmptyString) =>
        /\ AllCandidatesIncluded
        /\ \A c \in Elements(selectedContentTypes) :
              Unmatched(c) =>
                 /\ c.qvalue = 0
                 /\ \A d \in Elements(selectedContentTypes) :
                       FLt(d.qvalue, c.qvalue) => (d.qvalue = 0 - Scale /\ ~Unmatched(d))

C8_Witness ==
    /\ Done
    /\ \E c, d \in Elements(selectedContentTypes) :
          /\ Unmatched(c)
          /\ d.qvalue = 0 - Scale
          /\ selectedContentTypes[1] = c

\* the parameters after the media-range of a token, as <<key, value>>
ParametersOf(token) ==
    LET params == getlines(trim(token), ";")
        keyValue(param) ==
            <<trim(SubSeq(param, 1, find(param, "=") - 1)),
              trim(SubSeq(param, find(param, "=") + 1, Len(param)))>>
    IN  [k \in 1..(Len(params) - 1) |-> keyValue(trim(params[k + 1]))]

QualityParameters(token) ==
    {k \in 1..Len(ParametersOf(token)) : ParametersOf(token)[k][1] \in {<<"q">>, <<"Q">>}}

NormalizationOf(raw) ==
    IF raw = 0 THEN 0 - Scale
    ELSE IF raw = NaN THEN NaN
    ELSE IF raw < Scale \div 1000 \/ raw > Scale THEN Scale
    ELSE raw

InQualityRange(q) == q = 0 - Scale \/ (q # NaN /\ Scale \div 1000 <= q /\ q <= Scale)

Parsed == pc # "parse" /\ acceptValue # EmptyString

TokenOf(entry) == acceptTokens(acceptValue)[entry.order + 1]

\* C9: an accepted range has qvalue 1.0 when its token has no q/Q parameter,
\* and otherwise the normalization of the parsed q value; so its qvalue is
\* -1.0 or within [0.001, 1.0].
C9_QualityIsNormalized ==
    Parsed =>
        \A e \in Elements(acceptedContentTypes) :
           /\ IF QualityParameters(TokenOf(e)) = {} THEN e.qvalue = Scale
              ELSE e.qvalue = NormalizationOf(stringToFloat(
                       ParametersOf(TokenOf(e))[Last(QualityParameters(TokenOf(e)))][2]).f)
           /\ InQualityRange(e.qvalue)

\* the media-range of a token: what precedes its first ';'
MediaRangeOf(token) ==
    LET trimmed == trim(token)
        semicolon == find(trimmed, ";")
    IN  trim(IF semicolon = 0 THEN trimmed ELSE SubSeq(trimmed, 1, semicolon - 1))

\* C10: every accepted entry has a media range with '/', a non-empty type
\* and a non-empty subtype; a token whose media range lacks '/' is stored
\* nowhere.
C10_AcceptedHasTypeAndSubtype ==
    Parsed =>
        /\ \A e \in Elements(acceptedContentTypes) :
              HasSlash(e.range) /\ e.type # EmptyString /\ e.subtype # EmptyString
        /\ \A k \in 1..Len(acceptTokens(acceptValue)) :
              ~HasSlash(MediaRangeOf(acceptTokens(acceptValue)[k]))
                 => \A e \in Elements(acceptedContentTypes) : e.order # k - 1

=============================================================================
